---------------------------- MODULE Spec2Model ----------------------------
(***************************************************************************)
(* PyDrought: the standardization pipeline (SPI / SPEI), the distribution  *)
(* fitters and the incremental calibration update.                         *)
(*                                                                         *)
(* Every operation of the library is a pure function; a state of the model *)
(* is one completed call: its arguments, the intermediate values the code  *)
(* computes on the way (the aggregated series, the samples handed to the   *)
(* fitters, the probabilities handed to norm.ppf) and what it returns or   *)
(* raises.                                                                  *)
(*                                                                         *)
(* Numbers.  A float is a record [k, v]: k = "num" with an integer value,  *)
(* "nan" (pandas' / numpy's missing marker), "ninf" or "pinf".             *)
(* A probability is a float whose value counts units of 2^-PBits, PBits    *)
(* standing for the 53 bits of a binary64 mantissa: v = 0 is exactly 0.0   *)
(* and v = PUnit is exactly 1.0.                                           *)
(*                                                                         *)
(* indices/meteorological.py has no import statements; pd, np, gamma, norm *)
(* and fit_gamma_distribution are read as pandas, numpy, scipy.stats.gamma,*)
(* scipy.stats.norm and calibration.distribution.fit_gamma_distribution.   *)
(***************************************************************************)
EXTENDS Integers, Sequences, FiniteSets

\* ------------------------------------------------------------- bounds
MaxLen == 3          \* longest input series
MaxLenSpei == 2      \* longest pair of series given to the SPEI
MaxScale == 3        \* largest aggregation window
MaxVal == 2          \* largest raw precipitation value
PBits == 4           \* binary digits kept by a probability
MaxLenCal == 2       \* longest series given to calibrate_index
MaxLenPdsi == 1      \* most rows of the frame given to self_calibrated_pdsi
MaxCoef == 1         \* largest coefficient the simplex search may end at

PUnit == 2 ^ PBits   \* the probability 1.0

\* ------------------------------------------------------------- floats
NaN == [k |-> "nan", v |-> 0]
NInf == [k |-> "ninf", v |-> 0]
PInf == [k |-> "pinf", v |-> 0]
Num(x) == [k |-> "num", v |-> x]
IsNaN(f) == f.k = "nan"
IsNum(f) == f.k = "num"

\* Python's None, for an omitted distribution_params
None == <<>>

\* a - b on floats (numpy: a missing operand gives a missing result)
FSub(a, b) == IF IsNaN(a) \/ IsNaN(b) THEN NaN ELSE Num(a.v - b.v)

RECURSIVE SeqFilter(_, _)
\* the elements of s for which keep[i] holds, in their original order
SeqFilter(s, keep) ==
    IF s = <<>> THEN <<>>
    ELSE LET rest == SeqFilter(Tail(s), Tail(keep))
         IN IF Head(keep) THEN <<Head(s)>> \o rest ELSE rest

MinOf(S) == CHOOSE m \in S : \A x \in S : m <= x

\* ------------------------------------------- pandas: rolling(window).sum()
RECURSIVE RollState(_, _, _)
\* pandas' roll_sum after element i (1-based): the running sum and the number
\* of non-missing observations in the window; a missing value is skipped by
\* add and by remove.
RollState(x, window, i) ==
    IF i = 0 THEN [sum_x |-> 0, nobs |-> 0]
    ELSE LET prev == RollState(x, window, i - 1)
             added == IF IsNaN(x[i]) THEN prev
                      ELSE [sum_x |-> prev.sum_x + x[i].v, nobs |-> prev.nobs + 1]
         IN IF i > window /\ ~IsNaN(x[i - window])
            THEN [sum_x |-> added.sum_x - x[i - window].v, nobs |-> added.nobs - 1]
            ELSE added

\* faulty variant: min_periods = 1, so a short or holed window still yields a sum
RollingSumMinPeriods1(x, window) ==
    [i \in 1..Len(x) |->
        LET st == RollState(x, window, i)
        IN IF st.nobs >= 1 THEN Num(st.sum_x) ELSE NaN]

\* faulty variant: the warm-up positions are dropped from the aggregated series
RollingSumTrimmed(x, window) ==
    [i \in 1..(IF Len(x) >= window THEN Len(x) - window + 1 ELSE 0) |->
        LET st == RollState(x, window, i + window - 1)
        IN IF st.nobs >= window THEN Num(st.sum_x) ELSE NaN]

\* faulty variant: an expanding sum, which never lets an old value go
RollingSumExpanding(x, window) ==
    [i \in 1..Len(x) |->
        LET st == RollState(x, Len(x), i)
        IN IF i >= window /\ st.nobs >= i THEN Num(st.sum_x) ELSE NaN]

\* faulty variant: a missing value counts as zero (fillna(0) before the sum)
RollingSumNaAsZero(x, window) ==
    [i \in 1..Len(x) |->
        IF i >= window THEN Num(RollState(x, window, i).sum_x) ELSE NaN]

\* pd.Series(x).rolling(window=window).sum(): min_periods defaults to window
RollingSum(x, window) ==
    [i \in 1..Len(x) |->
        LET st == RollState(x, window, i)
        IN IF st.nobs >= window THEN Num(st.sum_x) ELSE NaN]

\* faulty variant: nothing is dropped
KeepNa(s) == s

\* Series.dropna()
DropNa(s) == SeqFilter(s, [i \in 1..Len(s) |-> ~IsNaN(s[i])])

\* faulty variant: the evapotranspiration is added to the precipitation
WaterSum(precip, pet) ==
    [i \in 1..Len(precip) |->
        IF IsNaN(precip[i]) \/ IsNaN(pet[i]) THEN NaN
        ELSE Num(precip[i].v + pet[i].v)]

\* D = np.array(precip) - np.array(pet), element-wise
WaterBalance(precip, pet) == [i \in 1..Len(precip) |-> FSub(precip[i], pet[i])]


\* ------------------------------------------------ calibration/distribution.py
\* faulty variant: zeros are kept in the sample
NonNegative(data) ==
    SeqFilter(data, [i \in 1..Len(data) |-> IsNum(data[i]) /\ data[i].v >= 0])

\* data[data > 0]: a missing value compares False and is dropped with the
\* zeros and the negatives
Positive(data) ==
    SeqFilter(data, [i \in 1..Len(data) |-> IsNum(data[i]) /\ data[i].v > 0])

\* what a Python call does: return a value or raise
Return(v) == [kind |-> "return", val |-> v, err |-> ""]
Raise(e) == [kind |-> "raise", val |-> None, err |-> e]

\* the scale parameters a fit may come back with
ScaleVals == {1, 2}

\* scipy.stats.<family>.fit(sample): maximum likelihood over (shape, loc,
\* scale).  The estimate is some parameter triple whose support holds the
\* sample (loc below its minimum).  An empty sample raises (numpy's minimum of
\* an empty array); a sample without spread (a single value, or equal values)
\* has no maximum, and depending on the SciPy version the search raises
\* FitError or returns what it stopped at.
LibFit(sample) ==
    IF sample = <<>> THEN {Raise("ValueError")}
    ELSE LET vals == {sample[i].v : i \in 1..Len(sample)}
             fitted == {Return(<<1, loc, sc>>) :
                            loc \in {0, MinOf(vals) - 1}, sc \in ScaleVals}
         IN IF Cardinality(vals) = 1 THEN fitted \cup {Raise("FitError")}
            ELSE fitted

\* the three fitters differ only in the SciPy family they call:
\* filter to positive values, fit, return (shape, loc, scale).  o is what
\* the library's fit does on the filtered sample; the call is recorded with
\* the sample it was given (data) and the sample it fitted (mle).
FitWith(family, data, o) ==
    [ret |-> o,
     fits |-> <<[family |-> family, data |-> data, mle |-> Positive(data),
                 out |-> o]>>]

fit_gamma_distribution(data, o) == FitWith("gamma", data, o)

fit_weibull_distribution(data, o) == FitWith("weibull_min", data, o)

fit_log_normal_distribution(data, o) == FitWith("lognorm", data, o)

Unsupported == "ValueError: Unsupported distribution type"

\* faulty variant: an unknown name falls back to the default family
SupportedOrDefault(distribution_type) ==
    distribution_type \in {"gamma", "weibull", "lognormal", "foo"}

\* the names fit_distribution's if / elif chain accepts
Supported(distribution_type) ==
    distribution_type \in {"gamma", "weibull", "lognormal"}

\* fit_distribution(data, distribution_type)
fit_distribution(data, distribution_type, o) ==
    IF ~Supported(distribution_type)
    THEN [ret |-> Raise(Unsupported), fits |-> <<>>]
    ELSE IF distribution_type = "weibull" THEN fit_weibull_distribution(data, o)
    ELSE IF distribution_type = "lognormal" THEN fit_log_normal_distribution(data, o)
    ELSE fit_gamma_distribution(data, o)

\* ------------------------------------------------ scipy.stats: gamma.cdf, norm.ppf
\* floor(PUnit * 2^(-d/s)): the upper tail of the distribution at distance d
\* above loc, in probability units; 0 once it is below one unit
TailUnits(d, s) ==
    IF d > s * PBits THEN 0
    ELSE CHOOSE r \in 0..PUnit :
            /\ r ^ s <= 2 ^ (s * PBits - d)
            /\ 2 ^ (s * PBits - d) < (r + 1) ^ s

\* faulty variant: the upper tail (the survival function) instead of the CDF
GammaSf(x, params) ==
    IF IsNaN(x) THEN NaN
    ELSE LET d == x.v - params[2]
         IN IF d <= 0 THEN Num(PUnit) ELSE Num(TailUnits(d, params[3]))

\* gamma.cdf(x, shape, loc, scale) for shape 1 (scale counted in half-lives):
\* missing for a missing x, exactly 0.0 at and below loc, rising above it and
\* exactly 1.0 once the tail is below the precision of a float
GammaCdf(x, params) ==
    IF IsNaN(x) THEN NaN
    ELSE LET d == x.v - params[2]
         IN IF d <= 0 THEN Num(0) ELSE Num(PUnit - TailUnits(d, params[3]))

Log2Floor(n) == CHOOSE e \in 0..PBits : 2 ^ e <= n /\ n < 2 ^ (e + 1)

\* norm.ppf(p): missing for a missing p, -inf at 0.0, +inf at 1.0, and between
\* them an increasing score that is 0 at 1/2 (here the whole bits of the
\* log-odds of p)
NormPpf(p) ==
    IF IsNaN(p) THEN NaN
    ELSE IF p.v <= 0 THEN NInf
    ELSE IF p.v >= PUnit THEN PInf
    ELSE Num(Log2Floor(p.v) - Log2Floor(PUnit - p.v))

\* ------------------------------------------------ indices/meteorological.py
\* faulty variant: the distribution is refit on every call
AlwaysFit(distribution_params) == TRUE

\* "if distribution_params is None"
NeedsFit(distribution_params) == distribution_params = None

\* faulty variant: a failed fit is replaced by default parameters
FitAndScoreWithFallback(aggregated, distribution_params, o) ==
    LET fit == IF NeedsFit(distribution_params)
               THEN fit_gamma_distribution(DropNa(aggregated), o)
               ELSE [ret |-> Return(distribution_params), fits |-> <<>>]
        used == IF fit.ret.kind = "raise" THEN <<1, 0, 1>> ELSE fit.ret.val
        cdf == [i \in 1..Len(aggregated) |-> GammaCdf(aggregated[i], used)]
    IN [ret |-> Return([i \in 1..Len(aggregated) |-> NormPpf(cdf[i])]),
        aggregated |-> aggregated, fits |-> fit.fits,
        used_params |-> used, cdf_vals |-> cdf]

\* the part the two indices share word for word (lines 194-201 and 223-228):
\* fit a gamma distribution to the non-missing aggregated values unless
\* parameters were given, then gamma.cdf and norm.ppf over the whole series.
\* An exception of the fitter is not caught.
FitAndScore(aggregated, distribution_params, o) ==
    LET fit == IF NeedsFit(distribution_params)
               THEN fit_gamma_distribution(DropNa(aggregated), o)
               ELSE [ret |-> Return(distribution_params), fits |-> <<>>]
    IN IF fit.ret.kind = "raise"
       THEN [ret |-> fit.ret, aggregated |-> aggregated, fits |-> fit.fits,
             used_params |-> None, cdf_vals |-> <<>>]
       ELSE LET cdf == [i \in 1..Len(aggregated) |->
                            GammaCdf(aggregated[i], fit.ret.val)]
            IN [ret |-> Return([i \in 1..Len(aggregated) |-> NormPpf(cdf[i])]),
                aggregated |-> aggregated, fits |-> fit.fits,
                used_params |-> fit.ret.val, cdf_vals |-> cdf]

standardized_precipitation_index(p, s, distribution_params, o) ==
    FitAndScore(RollingSum(p, s), distribution_params, o)

standardized_precipitation_evapotranspiration_index(p, e, s, distribution_params, o) ==
    FitAndScore(RollingSum(WaterBalance(p, e), s), distribution_params, o)

\* the outcomes the fit inside a standardizer call can have: those of the
\* library on the sample that reaches it, or none when no fit is made
FitOutcomes(aggregated, distribution_params) ==
    IF NeedsFit(distribution_params) THEN LibFit(Positive(DropNa(aggregated)))
    ELSE {Return(None)}

\* ------------------------------------------------ calibration/calibration_utils.py
weight_old == 7      \* 0.7, in tenths
weight_new == 3      \* 0.3, in tenths

\* A parameter dict is the sequence of its [key, val] items in insertion
\* order.  new_params is model.coef_: one estimate per feature column of
\* new_data['input'], in column order; name is the column the estimate
\* belongs to.  Values of the result are in tenths.
\* d[key] = val on a dict
SetItem(d, key, val) ==
    IF \E i \in 1..Len(d) : d[i].key = key
    THEN [i \in 1..Len(d) |->
            IF d[i].key = key THEN [key |-> key, val |-> val] ELSE d[i]]
    ELSE Append(d, [key |-> key, val |-> val])

\* faulty variant: the blend is written into the caller's dict
InPlace == "old_params"
\* updated_params = {}: the dict the loop writes to is a new object
UpdatedParams == "updated_params"

\* The loop over old_params.keys() from its i-th turn, on the store of the
\* objects the call can reach; new_data is held as the estimate it yields.
\* raised: new_params[i] was out of range (IndexError).
RECURSIVE UpdateLoop(_, _, _, _)
UpdateLoop(store, keys, new_params, i) ==
    IF i > Len(keys) THEN [store |-> store, raised |-> FALSE]
    ELSE IF i > Len(new_params) THEN [store |-> store, raised |-> TRUE]
    ELSE UpdateLoop(
            [store EXCEPT ![UpdatedParams] =
                SetItem(@, keys[i], weight_old * store.old_params[i].val
                                    + weight_new * new_params[i].val)],
            keys, new_params, i + 1)

\* the call with its effects: what it returns or raises, the objects as the
\* call leaves them, and which of them is returned
UpdateRun(old, new_params) ==
    LET run == UpdateLoop([old_params |-> old, new_data |-> new_params,
                           updated_params |-> <<>>],
                          [i \in 1..Len(old) |-> old[i].key], new_params, 1)
    IN [ret |-> IF run.raised THEN Raise("IndexError")
                ELSE Return(run.store[UpdatedParams]),
        objects |-> [store |-> run.store, returned |-> UpdatedParams]]

update_calibration_parameters(old, new_params) == UpdateRun(old, new_params).ret


\* numpy elementwise arithmetic: the length of a result of operands of
\* lengths m and n; -1 when the shapes cannot be broadcast (ValueError)
BroadcastLen(m, n) ==
    IF m = n THEN m ELSE IF m = 1 THEN n ELSE IF n = 1 THEN m ELSE -1

\* element i of an operand, a single element being stretched
At(x, i) == IF Len(x) = 1 THEN x[1] ELSE x[i]

RECURSIVE SumSqErr(_, _, _)
SumSqErr(modeled, observed, i) ==
    IF i = 0 THEN 0
    ELSE (At(modeled, i) - At(observed, i)) ^ 2 + SumSqErr(modeled, observed, i - 1)

\* np.sum((modeled - observed) ** 2), for shapes that broadcast
SqErr(modeled, observed) ==
    SumSqErr(modeled, observed, BroadcastLen(Len(modeled), Len(observed)))

\* the caller's index_function, here a linear index of the input
index_function(input_data, a, b) ==
    [i \in 1..Len(input_data) |-> a * input_data[i] + b]

\* faulty variant: the soil moisture term is left out
PdsiModelNoSoil(d, x) ==
    [i \in 1..Len(d.precip) |-> x[1] * d.precip[i] + x[2] * d.temp[i]]

\* a * precip + b * temp + c * soil_moisture, on the columns of one frame
PdsiModel(d, x) ==
    [i \in 1..Len(d.precip) |->
        x[1] * d.precip[i] + x[2] * d.temp[i] + x[3] * d.soil_moisture[i]]

\* dict.get(key, default)
Get(d, key, default) ==
    IF \E i \in 1..Len(d) : d[i].key = key
    THEN d[CHOOSE i \in 1..Len(d) : d[i].key = key].val
    ELSE default

\* the objective of calibrate_index: the squared error of the index
CalibrateObjective(calibration_data, x) ==
    SqErr(index_function(calibration_data.input, x[1], x[2]),
          calibration_data.observed)

\* the objective of self_calibrated_pdsi
PdsiObjective(d, x) == SqErr(PdsiModel(d, x), d.target_pdsi)

CoefVals == 0..MaxCoef

\* scipy.optimize.minimize(objective, x0, method='Nelder-Mead'), called with
\* no options: the simplex search ends at some point no worse than its
\* start, either converged (success) or stopped by the library's default
\* cap on iterations (success False); result.x is set in both cases
\* objective: the function's value at each point
MinimizeOutcomes(objective, x0) ==
    {[x |-> y, success |-> s] :
        y \in {z \in DOMAIN objective : objective[z] <= objective[x0]},
        s \in BOOLEAN}

\* the points a search over n coefficients may visit
Points(n) == [1..n -> CoefVals]

\* the minimize call as made: its start, the options passed, its result
Search(x0, r) ==
    [x0 |-> x0, options |-> None, x |-> r.x, success |-> r.success]
\* the first evaluation of the objective raised: there is no result
NoResult == [x |-> None, success |-> FALSE]

Mapping(d) == [type |-> "dict", val |-> d]
\* an array, or a series with no labels of its own
Series(s) == [type |-> "series", val |-> s, index |-> None]
\* pd.Series(s, index=index)
PdSeries(s, index) == [type |-> "series", val |-> s, index |-> index]

\* faulty variant: the parameters first
PdsiParamsFirst(calibrated_pdsi, params) == <<Mapping(params), calibrated_pdsi>>
\* return calibrated_pdsi, {'a': a, 'b': b, 'c': c}
PdsiReturn(calibrated_pdsi, params) == <<calibrated_pdsi, Mapping(params)>>
\* return best_params, calibrated_index
CalibrateReturn(best_params, calibrated_index) ==
    <<Mapping(best_params), Series(calibrated_index)>>

\* self_calibrated_pdsi(data, initial_parameters); r: what minimize returns
self_calibrated_pdsi(d, initial_parameters, r) ==
    LET init_params == <<Get(initial_parameters, "a", 1),
                         Get(initial_parameters, "b", 1),
                         Get(initial_parameters, "c", 1)>>
        calibrated_params == r.x
        \* precip is a pd.Series when the frame has an index: the result is
        \* then given precip.index
        calibrated_pdsi ==
            IF d.index # None
            THEN PdSeries(PdsiModel(d, calibrated_params), d.index)
            ELSE Series(PdsiModel(d, calibrated_params))
        \* {'a': a, 'b': b, 'c': c}: a dict display, a new object
        params == <<[key |-> "a", val |-> calibrated_params[1]],
                    [key |-> "b", val |-> calibrated_params[2]],
                    [key |-> "c", val |-> calibrated_params[3]]>>
    IN [ret |-> Return(PdsiReturn(calibrated_pdsi, params)),
        search |-> Search(init_params, r),
        \* initial_parameters is only read, by get
        objects |-> [store |-> [initial_parameters |-> initial_parameters,
                                params |-> params],
                     returned |-> "params"]]

\* calibrate_index(index_function, calibration_data, **kwargs); r: what
\* minimize returns.  kwargs is not read.
calibrate_index(calibration_data, kwargs, r) ==
    LET observed == calibration_data.observed
        input_data == calibration_data.input
    IN IF BroadcastLen(Len(input_data), Len(observed)) = -1
       THEN [ret |-> Raise("ValueError"), search |-> Search(<<1, 1>>, NoResult),
             objects |-> None]
       ELSE LET best_params == <<[key |-> "a", val |-> r.x[1]],
                                 [key |-> "b", val |-> r.x[2]]>>
                calibrated_index == index_function(input_data, r.x[1], r.x[2])
            IN [ret |-> Return(CalibrateReturn(best_params, calibrated_index)),
                search |-> Search(<<1, 1>>, r), objects |-> None]

\* ------------------------------------------------------------- state
VARIABLES
    op,                   \* the function that was called
    precip, pet, scale, distribution_params,    \* arguments of the indices
    data, distribution_type,                    \* arguments of the fitters
    old_params, new_params, weights,            \* arguments of the update
    family,               \* the distribution family the caller asked for
    call_args,            \* arguments of the calibration functions
    search,               \* the minimize call made
    objects,              \* the argument objects after the call, and the one returned
    ret,                  \* what the call returned or raised
    aggregated,           \* the rolling sums
    fits,                 \* the fitter calls made, with their samples
    used_params,          \* the parameters given to gamma.cdf
    cdf_vals              \* the probabilities given to norm.ppf

vars == <<op, precip, pet, scale, distribution_params, data, distribution_type,
          old_params, new_params, weights, family, call_args, search, objects,
          ret,
          aggregated, fits, used_params, cdf_vals>>

\* ------------------------------------------------------------- inputs
RawVals == {Num(v) : v \in 0..MaxVal} \cup {NaN}
PetVals == {Num(0), Num(MaxVal), NaN}
DataVals == {Num(v) : v \in -1..MaxVal} \cup {NaN}
SeqsOver(S, n) == UNION {[1..k -> S] : k \in 0..n}
SuppliedParams == {<<1, 0, 1>>, <<1, 0, 2>>, <<1, 1, 1>>}
TypeNames == {"gamma", "weibull", "lognormal", "foo"}
Keys == {"a", "b"}
\* dicts and coefficient vectors: items with distinct names
Items(n) ==
    {d \in SeqsOver([key : Keys, val : 0..MaxVal], n) :
        \A i, j \in 1..Len(d) : d[i].key = d[j].key => i = j}
WeightPairs == {<<7, 3>>, <<5, 5>>}

CalVals == {0, 1}
\* keyword arguments of calibrate_index: none, or an initial guess
KwargSets ==
    {<<>>} \cup {<<[key |-> "initial_guess", val |-> g]>> : g \in [1..2 -> CoefVals]}
\* frames with the four columns self_calibrated_pdsi reads
\* the time stamps of k rows
Stamps(k) == [i \in 1..k |-> 2000 + i]
\* index: the frame's row labels (a DataFrame), or None for plain arrays
Frames ==
    UNION {[precip : [1..k -> CalVals], temp : [1..k -> CalVals],
            soil_moisture : [1..k -> CalVals], target_pdsi : [1..k -> CalVals],
            index : {None, Stamps(k)}] :
           k \in 0..MaxLenPdsi}
InitialParameters ==
    {<<>>,
     <<[key |-> "a", val |-> 0]>>,
     <<[key |-> "a", val |-> 0], [key |-> "b", val |-> 0], [key |-> "c", val |-> 0]>>,
     <<[key |-> "a", val |-> 1], [key |-> "b", val |-> 0], [key |-> "c", val |-> 1]>>}

Init ==
    /\ op = "none"
    /\ precip = <<>> /\ pet = <<>> /\ scale = 0 /\ distribution_params = None
    /\ data = <<>> /\ distribution_type = ""
    /\ old_params = <<>> /\ new_params = <<>> /\ weights = <<>>
    /\ family = "" /\ call_args = None /\ search = None /\ objects = None
    /\ ret = Return(None)
    /\ aggregated = <<>> /\ fits = <<>> /\ used_params = None /\ cdf_vals = <<>>

\* ------------------------------------------------------------- calls
\* A call is made when no other is under way: the functions are synchronous.
Standardized(r) ==
    /\ ret' = r.ret /\ aggregated' = r.aggregated /\ fits' = r.fits
    /\ used_params' = r.used_params /\ cdf_vals' = r.cdf_vals

CallSpi ==
    /\ op = "none"
    /\ \E p \in SeqsOver(RawVals, MaxLen), s \in 1..MaxScale,
       dp \in {None} \cup SuppliedParams :
      \E o \in FitOutcomes(RollingSum(p, s), dp) :
        /\ op' = "spi"
        /\ precip' = p /\ pet' = <<>> /\ scale' = s /\ distribution_params' = dp
        /\ data' = <<>> /\ distribution_type' = ""
        /\ old_params' = <<>> /\ new_params' = <<>> /\ weights' = <<>>
        /\ family' = "" /\ call_args' = None /\ search' = None
        /\ objects' = None
        /\ Standardized(standardized_precipitation_index(p, s, dp, o))

CallSpei ==
    /\ op = "none"
    /\ \E p \in SeqsOver(RawVals, MaxLenSpei), s \in 1..MaxScale,
       dp \in {None} \cup SuppliedParams :
      \E e \in [1..Len(p) -> PetVals] :
        \E o \in FitOutcomes(RollingSum(WaterBalance(p, e), s), dp) :
          /\ op' = "spei"
          /\ precip' = p /\ pet' = e /\ scale' = s /\ distribution_params' = dp
          /\ data' = <<>> /\ distribution_type' = ""
          /\ old_params' = <<>> /\ new_params' = <<>> /\ weights' = <<>>
          /\ family' = "" /\ call_args' = None /\ search' = None
          /\ objects' = None
          /\ Standardized(
                standardized_precipitation_evapotranspiration_index(p, e, s, dp, o))

CallFit ==
    /\ op = "none"
    /\ \E d \in SeqsOver(DataVals, MaxLen), t \in TypeNames :
      \E o \in (IF Supported(t) THEN LibFit(Positive(d)) ELSE {Return(None)}) :
        LET r == fit_distribution(d, t, o)
        IN /\ op' = "fit_distribution"
           /\ precip' = <<>> /\ pet' = <<>> /\ scale' = 0
           /\ distribution_params' = None
           /\ data' = d /\ distribution_type' = t
           /\ old_params' = <<>> /\ new_params' = <<>> /\ weights' = <<>>
           /\ family' = "" /\ call_args' = None /\ search' = None
           /\ objects' = None
           /\ ret' = r.ret /\ fits' = r.fits
           /\ aggregated' = <<>> /\ used_params' = None /\ cdf_vals' = <<>>

CallUpdate ==
    /\ op = "none"
    /\ \E old \in Items(2), new \in Items(2), w \in WeightPairs :
        /\ op' = "update_calibration_parameters"
        /\ precip' = <<>> /\ pet' = <<>> /\ scale' = 0
        /\ distribution_params' = None
        /\ data' = <<>> /\ distribution_type' = ""
        /\ old_params' = old /\ new_params' = new /\ weights' = w
        /\ family' = "" /\ call_args' = None /\ search' = None
        /\ objects' = UpdateRun(old, new).objects
        /\ ret' = update_calibration_parameters(old, new)
        /\ aggregated' = <<>> /\ fits' = <<>> /\ used_params' = None
        /\ cdf_vals' = <<>>

Calibrated(c) ==
    /\ precip' = <<>> /\ pet' = <<>> /\ scale' = 0
    /\ distribution_params' = None
    /\ data' = <<>> /\ distribution_type' = ""
    /\ old_params' = <<>> /\ new_params' = <<>> /\ weights' = <<>>
    /\ family' = ""
    /\ ret' = c.ret /\ search' = c.search /\ objects' = c.objects
    /\ aggregated' = <<>> /\ fits' = <<>> /\ used_params' = None
    /\ cdf_vals' = <<>>

CallCalibrate ==
    /\ op = "none"
    /\ \E cd \in [input : SeqsOver(CalVals, MaxLenCal),
                  observed : SeqsOver(CalVals, MaxLenCal)], kw \in KwargSets :
      \E r \in (IF BroadcastLen(Len(cd.input), Len(cd.observed)) = -1
                THEN {NoResult}
                ELSE MinimizeOutcomes(
                        [x \in Points(2) |-> CalibrateObjective(cd, x)],
                        <<1, 1>>)) :
        /\ op' = "calibrate_index"
        /\ call_args' = [calibration_data |-> cd, kwargs |-> kw]
        /\ Calibrated(calibrate_index(cd, kw, r))

CallPdsi ==
    /\ op = "none"
    /\ \E d \in Frames, ip \in InitialParameters :
      \E r \in MinimizeOutcomes(
                [x \in Points(3) |-> PdsiObjective(d, x)],
                <<Get(ip, "a", 1), Get(ip, "b", 1), Get(ip, "c", 1)>>) :
        /\ op' = "self_calibrated_pdsi"
        /\ call_args' = [data |-> d, initial_parameters |-> ip]
        /\ Calibrated(self_calibrated_pdsi(d, ip, r))

\* the call is over; nothing of it is kept (the library holds no state)
Done ==
    /\ op # "none"
    /\ op' = "none"
    /\ precip' = <<>> /\ pet' = <<>> /\ scale' = 0 /\ distribution_params' = None
    /\ data' = <<>> /\ distribution_type' = ""
    /\ old_params' = <<>> /\ new_params' = <<>> /\ weights' = <<>>
    /\ family' = "" /\ call_args' = None /\ search' = None
    /\ objects' = None
    /\ ret' = Return(None)
    /\ aggregated' = <<>> /\ fits' = <<>> /\ used_params' = None /\ cdf_vals' = <<>>

Next ==
    CallSpi \/ CallSpei \/ CallFit \/ CallUpdate \/ CallCalibrate \/ CallPdsi
    \/ Done

Spec == Init /\ [][Next]_vars

\* ------------------------------------------------------------- the family
\* A caller asking the indices for a distribution family.  The signatures
\* are (precip, scale, distribution_params=None) and (precip, pet, scale,
\* distribution_params=None): a family keyword is one they do not have.
Families == {"gamma", "weibull", "lognormal"}

\* the scipy.stats distribution a family name stands for
LibFamily(f) ==
    IF f = "weibull" THEN "weibull_min"
    ELSE IF f = "lognormal" THEN "lognorm" ELSE "gamma"

\* the distribution whose cdf the indices evaluate
CdfFamily == "gamma"

\* a keyword argument the function does not take: TypeError at the call,
\* before any statement of the body
UnexpectedKeyword ==
    [ret |-> Raise("TypeError"), aggregated |-> <<>>, fits |-> <<>>,
     used_params |-> None, cdf_vals |-> <<>>]

CallSpiFamily ==
    /\ op = "none"
    /\ \E p \in SeqsOver(RawVals, MaxLenSpei), s \in 1..MaxScale,
       dp \in {None} \cup SuppliedParams, f \in {""} \cup Families :
      \E o \in (IF f = "" THEN FitOutcomes(RollingSum(p, s), dp)
                ELSE {Return(None)}) :
        /\ op' = "spi"
        /\ precip' = p /\ pet' = <<>> /\ scale' = s /\ distribution_params' = dp
        /\ data' = <<>> /\ distribution_type' = ""
        /\ old_params' = <<>> /\ new_params' = <<>> /\ weights' = <<>>
        /\ family' = f /\ call_args' = None /\ search' = None
        /\ objects' = None
        /\ Standardized(IF f = ""
                        THEN standardized_precipitation_index(p, s, dp, o)
                        ELSE UnexpectedKeyword)

CallSpeiFamily ==
    /\ op = "none"
    /\ \E p \in SeqsOver(RawVals, MaxLenSpei), s \in 1..MaxScale,
       dp \in {None} \cup SuppliedParams, f \in {""} \cup Families :
      \E e \in [1..Len(p) -> PetVals] :
        \E o \in (IF f = "" THEN FitOutcomes(RollingSum(WaterBalance(p, e), s), dp)
                  ELSE {Return(None)}) :
          /\ op' = "spei"
          /\ precip' = p /\ pet' = e /\ scale' = s /\ distribution_params' = dp
          /\ data' = <<>> /\ distribution_type' = ""
          /\ old_params' = <<>> /\ new_params' = <<>> /\ weights' = <<>>
          /\ family' = f /\ call_args' = None /\ search' = None
          /\ objects' = None
          /\ Standardized(
                IF f = ""
                THEN standardized_precipitation_evapotranspiration_index(p, e, s, dp, o)
                ELSE UnexpectedKeyword)

NextFamily == CallSpiFamily \/ CallSpeiFamily \/ Done

SpecFamily == Init /\ [][NextFamily]_vars

\* ------------------------------------------------------------- properties
IsIndexCall == op \in {"spi", "spei"}

\* the series the aggregation is applied to
Raw == IF op = "spei" THEN WaterBalance(precip, pet) ELSE precip

RECURSIVE SumRange(_, _, _)
SumRange(x, lo, hi) == IF lo > hi THEN 0 ELSE x[lo].v + SumRange(x, lo + 1, hi)

\* the float sum of x[lo..hi]: missing when a term is missing
WindowSum(x, lo, hi) ==
    IF \E j \in lo..hi : IsNaN(x[j]) THEN NaN ELSE Num(SumRange(x, lo, hi))

\* what index i of the aggregated series stands for: the window ending at i
WindowAt(x, i, s) == IF i < s THEN NaN ELSE WindowSum(x, i - s + 1, i)

\* the elements of d at the indices in S, in increasing index order
NthOf(S, n) == CHOOSE i \in S : Cardinality({j \in S : j <= i}) = n
Picked(d, S) == [n \in 1..Cardinality(S) |-> d[NthOf(S, n)]]
PositiveIdx(d) == {i \in 1..Len(d) : IsNum(d[i]) /\ d[i].v > 0}
PresentIdx(d) == {i \in 1..Len(d) : ~IsNaN(d[i])}

\* C1: for a series longer than the scale s, the first s-1 aggregated values
\* are missing and every later one is the sum of the s raw values ending at
\* its index (right-aligned rolling sum), in the SPI and in the SPEI.
C1_RollingSum ==
    (IsIndexCall /\ Len(precip) > scale) =>
        /\ Len(aggregated) = Len(precip)
        /\ \A i \in 1..Len(precip) :
              IF i < scale THEN IsNaN(aggregated[i])
              ELSE aggregated[i] = WindowSum(Raw, i - scale + 1, i)

C1_Witness ==
    /\ op = "spi" /\ scale = 2 /\ Len(precip) = 3
    /\ IsNaN(aggregated[1])
    /\ IsNum(aggregated[3]) /\ aggregated[3].v = 3
    /\ precip[1] = Num(2)

\* C2: a series returned by the SPI or the SPEI has the length of the input,
\* and its element i is the score of the window ending at input index i:
\* nothing is dropped, added or moved, warm-up positions included.
C2_LengthAndAlignment ==
    (IsIndexCall /\ ret.kind = "return") =>
        /\ Len(ret.val) = Len(precip)
        /\ \A i \in 1..Len(precip) :
              ret.val[i] = NormPpf(GammaCdf(WindowAt(Raw, i, scale), used_params))

C2_Witness ==
    /\ op = "spei" /\ ret.kind = "return" /\ scale = 2 /\ Len(precip) = 2
    /\ IsNaN(ret.val[1]) /\ IsNum(ret.val[2])

\* C3: in the SPI a missing aggregated value gives a missing probability and
\* a missing output, and the sample handed to the fitter holds exactly the
\* non-missing aggregated values: a missing one is never fit, mapped or
\* counted.
C3_MissingNeverFit ==
    op = "spi" =>
        /\ \A n \in 1..Len(fits) :
              /\ \A j \in 1..Len(fits[n].data) : ~IsNaN(fits[n].data[j])
              /\ \A j \in 1..Len(fits[n].mle) : ~IsNaN(fits[n].mle[j])
              /\ Len(fits[n].data) = Cardinality(PresentIdx(aggregated))
        /\ ret.kind = "return" =>
              \A i \in 1..Len(aggregated) :
                  IsNaN(aggregated[i]) => IsNaN(cdf_vals[i]) /\ IsNaN(ret.val[i])

C3_Witness ==
    /\ op = "spi" /\ ret.kind = "return" /\ fits # <<>> /\ scale = 1
    /\ Len(precip) = 3 /\ IsNaN(precip[2]) /\ IsNaN(ret.val[2])
    /\ Len(fits[1].data) = 2 /\ IsNum(ret.val[3])

\* C4: with distribution_params supplied no fitter is called and every CDF
\* value is computed with the supplied parameters; with it omitted the gamma
\* fitter is called once, on exactly the non-missing aggregated values.
C4_SuppliedParamsBypassFit ==
    IsIndexCall =>
        /\ distribution_params # None =>
              /\ fits = <<>>
              /\ ret.kind = "return"
              /\ used_params = distribution_params
              /\ \A i \in 1..Len(aggregated) :
                    cdf_vals[i] = GammaCdf(aggregated[i], distribution_params)
        /\ distribution_params = None =>
              /\ Len(fits) = 1
              /\ fits[1].data = Picked(aggregated, PresentIdx(aggregated))
              /\ ret.kind = "return" => used_params = fits[1].out.val

C4_Witness ==
    /\ op = "spi" /\ distribution_params = <<1, 0, 2>> /\ fits = <<>>
    /\ Len(precip) = 3 /\ scale = 1
    /\ \A i \in 1..3 : IsNum(cdf_vals[i]) /\ cdf_vals[i].v > 0
    /\ cdf_vals[1] # cdf_vals[2]

\* C5: for every non-missing aggregated value the probability given to the
\* inverse normal CDF is strictly between 0 and 1 (a CDF value of exactly 0
\* or 1 is clamped), so no output is infinite.
C5_ProbabilityInsideOpenInterval ==
    (IsIndexCall /\ ret.kind = "return") =>
        \A i \in 1..Len(aggregated) :
            ~IsNaN(aggregated[i]) =>
                /\ IsNum(cdf_vals[i]) /\ 0 < cdf_vals[i].v /\ cdf_vals[i].v < PUnit
                /\ IsNum(ret.val[i])

\* C6: a fit of any family on a sample with 0 or 1 strictly positive values
\* fails with InsufficientData and returns no parameters.
C6_InsufficientDataRaised ==
    (/\ op = "fit_distribution" /\ Supported(distribution_type)
     /\ Cardinality(PositiveIdx(data)) <= 1) =>
        ret.kind = "raise" /\ ret.err = "InsufficientData"

\* C7: fit_distribution raises the unsupported-distribution error, and fits
\* nothing, for every name other than gamma, weibull and lognormal; for each
\* of the three it calls the fitter of that family and no other.
C7_UnsupportedDistribution ==
    op = "fit_distribution" =>
        /\ distribution_type \notin {"gamma", "weibull", "lognormal"} =>
              ret = Raise(Unsupported) /\ fits = <<>>
        /\ distribution_type = "gamma" =>
              Len(fits) = 1 /\ fits[1].family = "gamma"
        /\ distribution_type = "weibull" =>
              Len(fits) = 1 /\ fits[1].family = "weibull_min"
        /\ distribution_type = "lognormal" =>
              Len(fits) = 1 /\ fits[1].family = "lognorm"

C7_Witness ==
    /\ op = "fit_distribution" /\ distribution_type = "foo"
    /\ ret.kind = "raise" /\ Len(data) = 3 /\ PositiveIdx(data) = {1, 2, 3}

\* C8: every fitter gives the maximum-likelihood fit exactly the strictly
\* positive elements of its input, in their original order.
C8_PositiveFilter ==
    \A n \in 1..Len(fits) :
        fits[n].mle = Picked(fits[n].data, PositiveIdx(fits[n].data))

C8_Witness ==
    /\ op = "fit_distribution" /\ distribution_type = "lognormal"
    /\ data = <<Num(2), Num(0), Num(1)>>
    /\ fits[1].mle = <<Num(2), Num(1)>>

\* C9: a failed fit reaches the caller as it was raised: it is made once, no
\* default parameters replace it, and the standardizer returns no series.
C9_FitFailurePropagates ==
    /\ Len(fits) <= 1
    /\ \A n \in 1..Len(fits) :
          fits[n].out.kind = "raise" =>
              /\ ret = fits[n].out
              /\ used_params = None /\ cdf_vals = <<>>

C9_Witness ==
    /\ op = "spi" /\ Len(precip) = 3 /\ scale = 1 /\ fits # <<>>
    /\ fits[1].out = Raise("FitError") /\ ret.kind = "raise"

\* the value a dict holds for key k
ValueOf(d, k) == d[CHOOSE i \in 1..Len(d) : d[i].key = k].val
KeysOf(d) == {d[i].key : i \in 1..Len(d)}

\* C10: for old and new parameter sets with the same keys, the update returns
\* for every key k the caller's weight_old * old[k] + weight_new * new[k],
\* new[k] being the fresh estimate of the same coefficient k.
C10_WeightedUpdate ==
    (op = "update_calibration_parameters" /\ KeysOf(old_params) = KeysOf(new_params)) =>
        /\ ret.kind = "return"
        /\ KeysOf(ret.val) = KeysOf(old_params)
        /\ \A k \in KeysOf(old_params) :
              ValueOf(ret.val, k) =
                  weights[1] * ValueOf(old_params, k) + weights[2] * ValueOf(new_params, k)

\* C11: when the old and the new parameter sets do not have the same keys
\* (more coefficients than keys, fewer, or other names) the update fails
\* (ParameterMismatch) and returns no updated parameter set.
C11_MismatchRejected ==
    (op = "update_calibration_parameters" /\ KeysOf(old_params) # KeysOf(new_params)) =>
        ret.kind = "raise"

RECURSIVE BalanceSum(_, _, _, _)
\* the sum over j in lo..hi of p[j] - e[j]
BalanceSum(p, e, lo, hi) ==
    IF lo > hi THEN 0 ELSE (p[lo].v - e[lo].v) + BalanceSum(p, e, lo + 1, hi)

\* C14: in the SPEI the aggregated value at every index i >= scale-1 is the
\* sum over the window ending at i of precip[j] - pet[j]: the water balance
\* is taken element by element first and summed afterwards.
C14_WaterBalanceThenSum ==
    op = "spei" =>
        /\ Len(aggregated) = Len(precip)
        /\ \A i \in scale..Len(precip) :
              aggregated[i] =
                  IF \E j \in (i - scale + 1)..i : IsNaN(precip[j]) \/ IsNaN(pet[j])
                  THEN NaN
                  ELSE Num(BalanceSum(precip, pet, i - scale + 1, i))

C14_Witness ==
    /\ op = "spei" /\ scale = 2
    /\ precip = <<Num(1), Num(2)>> /\ pet = <<Num(2), Num(2)>>
    /\ aggregated[2] = Num(-1)

\* the negative numbers of a sample
NegativeIdx(d) == {i \in 1..Len(d) : IsNum(d[i]) /\ d[i].v < 0}

\* C15: an SPEI call without distribution_params whose aggregated water
\* balance holds a negative value fails when that value reaches the fitter:
\* the negative values are not dropped from the fitted sample and no series
\* is returned.
C15_NegativeFailsFast ==
    (/\ op = "spei" /\ distribution_params = None
     /\ NegativeIdx(aggregated) # {}) =>
        /\ ret.kind = "raise"
        /\ \A n \in 1..Len(fits) :
              Cardinality(NegativeIdx(fits[n].mle)) =
                  Cardinality(NegativeIdx(fits[n].data))

\* C19: with supplied parameters the SPI is deterministic and local: the call
\* has one possible result, and changing a value outside the window
\* i-scale+1..i, or appending a value, leaves the score at i as it is.
C19_DeterministicAndLocal ==
    (op = "spi" /\ distribution_params # None) =>
        /\ \A o \in FitOutcomes(RollingSum(precip, scale), distribution_params) :
              standardized_precipitation_index(precip, scale, distribution_params, o).ret
                  = ret
        /\ \A j \in 1..Len(precip), v \in RawVals :
              LET q == [precip EXCEPT ![j] = v]
              IN \A o \in FitOutcomes(RollingSum(q, scale), distribution_params) :
                    LET other == standardized_precipitation_index(
                                    q, scale, distribution_params, o).ret
                    IN /\ other.kind = "return"
                       /\ \A i \in 1..Len(precip) :
                             j \notin (i - scale + 1)..i => other.val[i] = ret.val[i]
        /\ \A v \in RawVals :
              LET q == Append(precip, v)
              IN \A o \in FitOutcomes(RollingSum(q, scale), distribution_params) :
                    LET other == standardized_precipitation_index(
                                    q, scale, distribution_params, o).ret
                    IN /\ other.kind = "return"
                       /\ \A i \in 1..Len(precip) : other.val[i] = ret.val[i]

C19_Witness ==
    /\ op = "spi" /\ distribution_params = <<1, 0, 2>> /\ scale = 2
    /\ Len(precip) = 3 /\ ret.kind = "return"
    /\ IsNum(ret.val[2]) /\ IsNum(ret.val[3]) /\ ret.val[2] # ret.val[3]

\* a <= b on scores, the infinities included
ScoreLeq(a, b) ==
    \/ a = NInf \/ b = PInf
    \/ IsNum(a) /\ IsNum(b) /\ a.v <= b.v

\* C20: with fitted gamma parameters the CDF is non-decreasing: of two
\* aggregated values the smaller has a probability, and a score, not greater
\* than the larger one's.
C20_CdfMonotone ==
    (IsIndexCall /\ distribution_params = None /\ ret.kind = "return") =>
        \A i, j \in 1..Len(aggregated) :
            (IsNum(aggregated[i]) /\ IsNum(aggregated[j])
             /\ aggregated[i].v <= aggregated[j].v) =>
                /\ cdf_vals[i].v <= cdf_vals[j].v
                /\ ScoreLeq(ret.val[i], ret.val[j])

C20_Witness ==
    /\ op = "spi" /\ distribution_params = None /\ ret.kind = "return"
    /\ scale = 1 /\ Len(precip) = 3
    /\ 0 < cdf_vals[1].v /\ cdf_vals[1].v < cdf_vals[2].v
    /\ cdf_vals[2].v < PUnit /\ ret.val[1] # ret.val[2]
    /\ cdf_vals[3] = Num(0)


\* ------------------------------------------------------------- calibration
IsCalibration == op \in {"calibrate_index", "self_calibrated_pdsi"}

\* arguments no calibration can be made from: no observation at all, or
\* inputs and observations of different lengths
Degenerate ==
    \/ /\ op = "calibrate_index"
       /\ \/ Len(call_args.calibration_data.observed) = 0
          \/ Len(call_args.calibration_data.input) #
                Len(call_args.calibration_data.observed)
    \/ /\ op = "self_calibrated_pdsi"
       /\ Len(call_args.data.target_pdsi) = 0

\* C12: calibrate_index and self_calibrated_pdsi reject degenerate arguments
\* with an error raised before the objective is evaluated for the first
\* time, that is before any minimize call is made.
C12_DegenerateRejected ==
    Degenerate => (ret.kind = "raise" /\ search = None)

\* C13: every calibration run is made under an explicitly set cap on the
\* iterations, and a search stopped by the cap is reported as an error, not
\* as a calibrated result.
C13_BoundedAndReported ==
    (IsCalibration /\ search # None) =>
        /\ search.options # None
        /\ (~search.success => ret.kind = "raise")

\* the position of a coefficient in the start vector
CoefPos(key) == IF key = "a" THEN 1 ELSE IF key = "b" THEN 2 ELSE 3

\* C17: the simplex search starts from the initial guess the caller gave, in
\* calibrate_index (keyword initial_guess) and in self_calibrated_pdsi
\* (initial_parameters).
C17_StartsFromGuess ==
    /\ (op = "calibrate_index" /\ Len(call_args.kwargs) > 0) =>
            search.x0 = Get(call_args.kwargs, "initial_guess", None)
    /\ op = "self_calibrated_pdsi" =>
            \A i \in 1..Len(call_args.initial_parameters) :
                search.x0[CoefPos(call_args.initial_parameters[i].key)] =
                    call_args.initial_parameters[i].val

\* C18, as stated: both calibration functions return the pair (parameters,
\* series): the mapping of coefficients first, the recomputed series second.
C18_ParamsThenSeries ==
    (IsCalibration /\ ret.kind = "return") =>
        /\ Len(ret.val) = 2
        /\ ret.val[1].type = "dict" /\ ret.val[2].type = "series"

\* C18, amended: calibrate_index returns (parameters, series);
\* self_calibrated_pdsi returns (series, parameters).  In both, the mapping
\* holds the coefficients the search ended at.
C18_ReturnOrder ==
    /\ (op = "calibrate_index" /\ ret.kind = "return") =>
            /\ Len(ret.val) = 2
            /\ ret.val[1].type = "dict" /\ ret.val[2].type = "series"
            /\ ret.val[1].val = <<[key |-> "a", val |-> search.x[1]],
                                  [key |-> "b", val |-> search.x[2]]>>
    /\ (op = "self_calibrated_pdsi" /\ ret.kind = "return") =>
            /\ Len(ret.val) = 2
            /\ ret.val[1].type = "series" /\ ret.val[2].type = "dict"
            /\ ret.val[2].val = <<[key |-> "a", val |-> search.x[1]],
                                  [key |-> "b", val |-> search.x[2]],
                                  [key |-> "c", val |-> search.x[3]]>>

\* self_calibrated_pdsi has returned a series of one row or more, with its
\* parameters
C18_Witness ==
    /\ op = "self_calibrated_pdsi" /\ ret.kind = "return"
    /\ Len(call_args.data.precip) >= 1
    /\ Len(ret.val) = 2 /\ ret.val[2].val[1].val # ret.val[2].val[2].val

\* ------------------------------------------------------------- family
\* C16: the indices honour the family the caller asks for (gamma when none
\* is named): the call is accepted, every fit is made by this family's
\* fitter, and the probabilities come from this family's cdf.
C16_FamilyHonoured ==
    IsIndexCall =>
        /\ ret.err # "TypeError"
        /\ \A n \in 1..Len(fits) : fits[n].family = LibFamily(family)
        /\ Len(cdf_vals) > 0 => CdfFamily = LibFamily(family)

\* ------------------------------------------------------------- missing input
\* raw input j of the call is missing: the precipitation, or for the SPEI
\* the precipitation or the evapotranspiration
MissingRaw(j) ==
    \/ IsNaN(precip[j])
    \/ (op = "spei" /\ j <= Len(pet) /\ IsNaN(pet[j]))

\* C22: a missing raw value is never taken as zero by the aggregation: at
\* every position i >= scale whose window i-scale+1..i holds a missing raw
\* value, the aggregated value is missing (so it is not the sum of the
\* values that remain).
C22_MissingNotZero ==
    IsIndexCall =>
        /\ Len(aggregated) = Len(precip)
        /\ \A i \in 1..Len(aggregated) :
            (i >= scale /\ \E j \in (i - scale + 1)..i : MissingRaw(j)) =>
                IsNaN(aggregated[i])

\* a window of two or more values, one missing and one positive, behind a
\* missing aggregated value
C22_Witness ==
    /\ IsIndexCall /\ scale >= 2 /\ Len(aggregated) >= scale
    /\ \E i \in scale..Len(aggregated) :
        /\ IsNaN(aggregated[i])
        /\ \E j, k \in (i - scale + 1)..i :
            MissingRaw(j) /\ ~MissingRaw(k) /\ precip[k].v > 0

\* ------------------------------------------------------------- frame
\* C21: parameter objects are never mutated.  update_calibration_parameters
\* leaves old_params and new_data as they were passed, and what it returns
\* is a mapping created by the call; self_calibrated_pdsi leaves
\* initial_parameters as it was passed and returns a mapping of its own.
C21_ParametersNotMutated ==
    /\ op = "update_calibration_parameters" =>
        /\ objects.store.old_params = old_params
        /\ objects.store.new_data = new_params
        /\ ret.kind = "return" =>
            /\ objects.returned \notin {"old_params", "new_data"}
            /\ ret.val = objects.store[objects.returned]
    /\ op = "self_calibrated_pdsi" =>
        /\ objects.store.initial_parameters = call_args.initial_parameters
        /\ ret.kind = "return" =>
            /\ objects.returned # "initial_parameters"
            /\ Len(ret.val) = 2
            /\ \E n \in 1..2 : /\ ret.val[n].type = "dict"
                               /\ ret.val[n].val = objects.store[objects.returned]

\* an update has returned a blend of two items whose values differ from the
\* old ones (in tenths), so writing it into old_params would have shown
C21_Witness ==
    /\ op = "update_calibration_parameters" /\ ret.kind = "return"
    /\ Len(old_params) = 2 /\ Len(ret.val) = 2
    /\ \A i \in 1..2 : ret.val[i].val # 10 * old_params[i].val

\* ------------------------------------------------------------- result
\* C23: the series a calibration returns is the model evaluated on the input
\* at the coefficients returned with it: index_function(input_data, a, b)
\* for calibrate_index, a*precip + b*temp + c*soil_moisture for
\* self_calibrated_pdsi, of the input's length and, for a timestamped
\* precip, with its index.
C23_SeriesAtReturnedCoefficients ==
    /\ (op = "calibrate_index" /\ ret.kind = "return") =>
        /\ Len(ret.val) = 2
        /\ ret.val[2].val =
              index_function(call_args.calibration_data.input,
                             ValueOf(ret.val[1].val, "a"),
                             ValueOf(ret.val[1].val, "b"))
        /\ Len(ret.val[2].val) = Len(call_args.calibration_data.input)
    /\ (op = "self_calibrated_pdsi" /\ ret.kind = "return") =>
        /\ Len(ret.val) = 2
        /\ LET s == ret.val[1]
               p == ret.val[2].val
               d == call_args.data
           IN /\ Len(s.val) = Len(d.precip)
              /\ \A i \in 1..Len(s.val) :
                    s.val[i] = ValueOf(p, "a") * d.precip[i]
                               + ValueOf(p, "b") * d.temp[i]
                               + ValueOf(p, "c") * d.soil_moisture[i]
              /\ s.index = d.index

\* self_calibrated_pdsi has returned a timestamped series in which the soil
\* moisture term counts, from a search that moved away from its start
C23_Witness ==
    /\ op = "self_calibrated_pdsi" /\ ret.kind = "return"
    /\ Len(call_args.data.precip) >= 1
    /\ call_args.data.index # None
    /\ search.x # search.x0
    /\ search.x[3] * call_args.data.soil_moisture[1] > 0
=============================================================================
